---- MODULE Spec2Model ----
(***************************************************************************)
(* State-machine model of NCAA_Predictor_MLax_2025.py: the Elo win         *)
(* probability, the bracket seeding, one round of play, one full bracket   *)
(* and the batched aggregation driver with its report.                     *)
(*                                                                         *)
(* Randomness.  random.random() is a draw u = k/4 with k in UniformDraws,  *)
(* and _win_prob returns its probability p as the number of quarters       *)
(* ceil(4p), so that "u < p" is exactly "k < ceil(4p)".  random.gauss is a *)
(* draw from {-sd, 0, +sd}.                                                *)
(***************************************************************************)
EXTENDS Integers, Sequences, FiniteSets, TLC

VARIABLES
    TEAMS,            \* module global: list of <<seed, name>>
    RATINGS,          \* module global: name -> Elo rating
    RATING_NOISE_SD,  \* module global: noise standard deviation
    n_runs,           \* argument of run_large_simulation
    batch_size,       \* argument of run_large_simulation
    pc,               \* position of the program
    err,              \* the exception that ended the run, "none" otherwise
    all_results,      \* the Counter, as a list of <<name, count>> in insertion order
    full_batches,     \* iterations of the full-batch loop still to run
    remainder,        \* n_runs % batch_size
    partial_done,     \* TRUE once the "if remainder" statement has been passed
    batch,            \* champions collected by the running list comprehension
    target,           \* length the running list comprehension builds
    current,          \* simulate_bracket / _play_round: entries of the round
    winners,          \* _play_round: winners so far
    i,                \* _play_round: loop index (1-based position of name_a)
    df,               \* rows of the report table
    built,            \* the table has been built
    written,          \* the table has been written to out_path
    returned,         \* run_large_simulation has returned df
    calls,            \* history: simulate_bracket calls made
    completed,        \* history: simulate_bracket calls that returned
    rounds,           \* history: rounds resolved in the running bracket
    batches,          \* history: sizes of the batches started
    favoured          \* history: every draw of the running bracket fell on the
                      \* half of [0,1) of the higher-rated side

vars == <<TEAMS, RATINGS, RATING_NOISE_SD, n_runs, batch_size, pc, err,
          all_results, full_batches, remainder, partial_done, batch, target,
          current, winners, i, df, built, written, returned,
          calls, completed, rounds, batches, favoured>>

(***************************************************************************)
(* Bounds of the model.                                                    *)
(***************************************************************************)
MaxRuns == 3          \* n_runs ranges over 0..MaxRuns
MaxBatch == 3         \* batch_size ranges over -1..MaxBatch
MaxGames == 15        \* games one aggregation run may play: n_runs * (N - 1)
MaxSeedPairs == 3     \* _seed_order on its own: lists of up to 2 * MaxSeedPairs entries
MaxRoundPairs == 4    \* _play_round on its own: lists of up to 2 * MaxRoundPairs entries
MaxRounds == 4        \* rounds one bracket may play

(***************************************************************************)
(* The module globals as the source sets them.                             *)
(***************************************************************************)
SrcTEAMS ==
    << <<1, "Cornell">>, <<2, "Maryland">>, <<3, "Princeton">>,
       <<4, "Ohio State">>, <<5, "Penn State">>, <<6, "Syracuse">>,
       <<7, "Duke">>, <<8, "North Carolina">>, <<9, "Richmond">>,
       <<10, "Georgetown">>, <<11, "Harvard">>, <<12, "Colgate">>,
       <<13, "Notre Dame">>, <<14, "Towson">>, <<15, "Air Force">>,
       <<16, "Albany">> >>

SrcRATINGS ==
    ("Cornell" :> 2008) @@ ("Maryland" :> 1923) @@ ("Princeton" :> 1870) @@
    ("Ohio State" :> 1826) @@ ("Penn State" :> 1848) @@ ("Syracuse" :> 1817) @@
    ("Duke" :> 1765) @@ ("North Carolina" :> 1766) @@ ("Richmond" :> 1815) @@
    ("Georgetown" :> 1723) @@ ("Harvard" :> 1767) @@ ("Colgate" :> 1666) @@
    ("Notre Dame" :> 1806) @@ ("Towson" :> 1613) @@ ("Air Force" :> 1535) @@
    ("Albany" :> 1567)

SrcNOISE_SD == 15

(***************************************************************************)
(* Python arithmetic.                                                      *)
(***************************************************************************)
\* a // b, floor division (b # 0)
PyFloorDiv(a, b) == IF b > 0 THEN a \div b ELSE (0 - a) \div (0 - b)

\* a % b, the result takes the sign of b (b # 0)
PyMod(a, b) == IF b > 0 THEN a % b ELSE 0 - ((0 - a) % (0 - b))

RECURSIVE BitAnd(_, _)
\* a & b on non-negative integers
BitAnd(a, b) ==
    IF a = 0 \/ b = 0 THEN 0
    ELSE (IF a % 2 = 1 /\ b % 2 = 1 THEN 1 ELSE 0) + 2 * BitAnd(a \div 2, b \div 2)

(***************************************************************************)
(* _win_prob (lines 50-57).                                                *)
(***************************************************************************)
\* random.random(): u = k/4
UniformDraws == 0 .. 3

\* random.gauss(0, sd), drawn only when sd > 0 (line 54)
GaussDraws(sd) == IF sd > 0 THEN {0 - sd, 0, sd} ELSE {0}

\* ceil(4 * 1/(1 + 10^(-d/400))) for an integer rating difference d:
\*   p <= 1/4  iff  d <= 400*log10(1/3) = -190.85..
\*   p <= 1/2  iff  d <= 0
\*   p <= 3/4  iff  d <= 400*log10(3)   =  190.85..
Logistic(d) ==
    CASE d <= -191 -> 1
      [] d > -191 /\ d <= 0 -> 2
      [] d > 0 /\ d <= 190 -> 3
      [] d > 190 -> 4

\* faulty variant: the rating difference taken the wrong way round
WinProbSwapped(team_a, team_b, noise_a, noise_b) ==
    Logistic((RATINGS[team_b] + noise_b) - (RATINGS[team_a] + noise_a))

_win_prob(team_a, team_b, noise_a, noise_b) ==
    Logistic((RATINGS[team_a] + noise_a) - (RATINGS[team_b] + noise_b))

(***************************************************************************)
(* _seed_order (lines 60-71).                                              *)
(***************************************************************************)
\* where the stable ascending sort by seed puts the entry at position j
SeedRank(s, j) ==
    1 + Cardinality({k \in 1 .. Len(s) :
                        s[k][1] < s[j][1] \/ (s[k][1] = s[j][1] /\ k < j)})

\* faulty variant: the list is not sorted
Unsorted(s) == s

\* sorted(pairings, key=lambda x: x[0]): stable, ascending by seed
SortedBySeed(s) ==
    [p \in 1 .. Len(s) |-> s[CHOOSE j \in 1 .. Len(s) : SeedRank(s, j) = p]]

_seed_order(pairings) ==
    LET sorted == SortedBySeed(pairings)
        n == Len(sorted)
    IN  [k \in 1 .. 2 * (n \div 2) |->
            IF k % 2 = 1 THEN sorted[(k + 1) \div 2]       \* pairings[i]
            ELSE sorted[n - (k \div 2) + 1]]               \* pairings[-(i + 1)]

(***************************************************************************)
(* _play_round (lines 74-83).                                              *)
(***************************************************************************)
\* line 81, with p and u in quarters
GameWinner(entry_a, entry_b, p, u) == IF u < p THEN entry_a ELSE entry_b

\* faulty variant: range(0, n, 1)
NextIndexByOne(k) == k + 1

\* range(0, len(teams_in_round), 2)
NextIndex(k) == k + 2

(***************************************************************************)
(* simulate_bracket (lines 86-98).                                         *)
(***************************************************************************)
\* faulty variant: any even field passes
IsEven(n) == n > 1 /\ n % 2 = 0

\* line 92: n > 1 and (n & (n - 1) == 0)
IsPowerOfTwo(n) == n > 1 /\ BitAnd(n, n - 1) = 0

\* faulty variant: the round's result is dropped
RoundDropped(cur, won) == cur

\* line 96: current = _play_round(current)
RoundResult(cur, won) == won

\* line 98: current[0][1]
Champion(cur) == cur[1][2]

(***************************************************************************)
(* run_large_simulation (lines 101-126).                                   *)
(***************************************************************************)
\* faulty variant: the assertion is not made
AssertSkipped(b) == TRUE

\* line 106
BatchSizeOk(b) == b > 0

\* faulty variant: rounded up
CeilBatches(n, b) == PyFloorDiv(n + b - 1, b)

\* line 109
FullBatches(n, b) == PyFloorDiv(n, b)

\* line 110
Remainder(n, b) == PyMod(n, b)

\* faulty variant: the partial batch always runs
Always(r) == TRUE

\* line 116: if remainder
RunPartial(r) == r # 0

\* how often name occurs in the list names
Occurrences(names, name) == Cardinality({k \in 1 .. Len(names) : names[k] = name})

\* the names of the list that are not yet keys of c, in order of first occurrence
NewKeys(c, names) ==
    LET first == {k \in 1 .. Len(names) :
                     /\ \A j \in 1 .. Len(c) : c[j][1] # names[k]
                     /\ \A j \in 1 .. k - 1 : names[j] # names[k]}
    IN  [p \in 1 .. Cardinality(first) |->
            names[CHOOSE k \in first : Cardinality({j \in first : j < k}) = p - 1]]

\* faulty variant: the batch replaces the tally
CounterReplace(c, names) ==
    [p \in 1 .. Len(NewKeys(<<>>, names)) |->
        <<NewKeys(<<>>, names)[p], Occurrences(names, NewKeys(<<>>, names)[p])>>]

\* lines 114, 118: all_results.update(batch); a Counter keeps its keys in
\* insertion order
CounterUpdate(c, names) ==
    [k \in 1 .. Len(c) |-> <<c[k][1], c[k][2] + Occurrences(names, c[k][1])>>]
    \o [p \in 1 .. Len(NewKeys(c, names)) |->
            <<NewKeys(c, names)[p], Occurrences(names, NewKeys(c, names)[p])>>]

RECURSIVE CounterTotalTo(_, _)
CounterTotalTo(c, n) == IF n = 0 THEN 0 ELSE c[n][2] + CounterTotalTo(c, n - 1)

\* sum(all_results.values())
CounterTotal(c) == CounterTotalTo(c, Len(c))

\* round(100 * count / n, 2) in hundredths of a percent: the nearest hundredth
\* (a tie goes to the even one; none occurs for n < 32)
WinPct(count, n) ==
    LET q == (10000 * count) \div n
        r == (10000 * count) % n
    IN  IF 2 * r < n THEN q
        ELSE IF 2 * r > n THEN q + 1
        ELSE IF q % 2 = 0 THEN q ELSE q + 1

\* where the stable descending sort by count puts the row at position j
CountRank(c, j) ==
    1 + Cardinality({k \in 1 .. Len(c) :
                        c[k][2] > c[j][2] \/ (c[k][2] = c[j][2] /\ k < j)})

\* lines 120-123: the rows, by descending count, ties in insertion order
ReportRows(c, n) ==
    [p \in 1 .. Len(c) |->
        LET row == c[CHOOSE j \in 1 .. Len(c) : CountRank(c, j) = p]
        IN  [Team |-> row[1], Championships |-> row[2], WinPct |-> WinPct(row[2], n)]]

(***************************************************************************)
(* The configurations and arguments the program is run with.               *)
(***************************************************************************)
Field(n) == SubSeq(SrcTEAMS, 1, n)

\* four teams out of seed order, the highest-rated one seeded second
Shuffled4 ==
    << <<3, "Princeton">>, <<2, "Cornell">>, <<4, "Ohio State">>, <<1, "Maryland">> >>

\* a seed given twice
DupSeeds4 ==
    << <<1, "Cornell">>, <<2, "Maryland">>, <<2, "Princeton">>, <<4, "Ohio State">> >>

\* a seed left out
GapSeeds4 ==
    << <<1, "Cornell">>, <<2, "Maryland">>, <<3, "Princeton">>, <<5, "Penn State">> >>

TeamLists ==
    {SrcTEAMS, Shuffled4, Field(2), Field(1), Field(3), Field(6), DupSeeds4, GapSeeds4}

\* the rating store without one of the teams
RatingsWithout(name) ==
    [t \in (DOMAIN SrcRATINGS) \ {name} |-> SrcRATINGS[t]]

RatingStores == {SrcRATINGS, RatingsWithout("Princeton")}

NoiseSDs == {0, SrcNOISE_SD}

RECURSIVE Perms(_)
\* every ordering of the entries of a set
Perms(S) ==
    IF S = {} THEN {<<>>}
    ELSE UNION {{<<e>> \o q : q \in Perms(S \ {e})} : e \in S}

Range(s) == {s[k] : k \in 1 .. Len(s)}

Names(s) == {s[k][2] : k \in 1 .. Len(s)}

Seeds(s) == {s[k][1] : k \in 1 .. Len(s)}

Idle ==
    /\ err = "none"
    /\ all_results = <<>>
    /\ full_batches = 0
    /\ remainder = 0
    /\ partial_done = FALSE
    /\ batch = <<>>
    /\ target = 0
    /\ winners = <<>>
    /\ i = 1
    /\ df = <<>>
    /\ built = FALSE
    /\ written = FALSE
    /\ returned = FALSE
    /\ calls = 0
    /\ completed = 0
    /\ rounds = 0
    /\ batches = <<>>
    /\ favoured = TRUE

\* the state before run_large_simulation is called
Init ==
    /\ TEAMS \in TeamLists
    /\ RATINGS \in RatingStores
    /\ RATING_NOISE_SD \in NoiseSDs
    /\ n_runs \in 0 .. MaxRuns
    /\ batch_size \in -1 .. MaxBatch
    /\ n_runs * (Len(TEAMS) - 1) <= MaxGames
    /\ pc = "start"
    /\ current = <<>>
    /\ Idle

\* the state before _seed_order is called on a list with seeds 1..N, N even
InitSeed ==
    /\ \E h \in 1 .. MaxSeedPairs : TEAMS \in Perms(Range(Field(2 * h)))
    /\ RATINGS = SrcRATINGS
    /\ RATING_NOISE_SD = SrcNOISE_SD
    /\ n_runs = 0
    /\ batch_size = 1
    /\ pc = "seed"
    /\ current = <<>>
    /\ Idle

\* the state before _play_round is called on a list of even length
InitRound ==
    /\ TEAMS = SrcTEAMS
    /\ RATINGS = SrcRATINGS
    /\ RATING_NOISE_SD \in NoiseSDs
    /\ n_runs = 0
    /\ batch_size = 1
    /\ pc = "round"
    /\ \E h \in 1 .. MaxRoundPairs :
          current \in {SubSeq(_seed_order(SrcTEAMS), 1, 2 * h),
                       SubSeq(SrcTEAMS, 1, 2 * h),
                       SubSeq(SrcTEAMS, Len(SrcTEAMS) - 2 * h + 1, Len(SrcTEAMS))}
    /\ Idle

(***************************************************************************)
(* The steps of the program.                                               *)
(***************************************************************************)
Raise(e) ==
    /\ pc' = "error"
    /\ err' = e

\* run_large_simulation, lines 106-110
Start ==
    /\ pc = "start"
    /\ IF ~BatchSizeOk(batch_size)
       THEN /\ Raise("AssertionError")
            /\ UNCHANGED <<all_results, full_batches, remainder>>
       ELSE IF batch_size = 0
       THEN /\ Raise("ZeroDivisionError")
            /\ UNCHANGED <<all_results, full_batches, remainder>>
       ELSE /\ all_results' = <<>>
            /\ full_batches' = FullBatches(n_runs, batch_size)
            /\ remainder' = Remainder(n_runs, batch_size)
            /\ pc' = "batches"
            /\ err' = err
    /\ UNCHANGED <<TEAMS, RATINGS, RATING_NOISE_SD, n_runs, batch_size,
                   partial_done, batch, target, current, winners, i, df, built,
                   written, returned, calls, completed, rounds, batches, favoured>>

\* lines 112-113 and 116-117: the next list comprehension is entered; an
\* empty one is finished at once and added to the tally (lines 114, 118)
BeginBatch ==
    /\ pc = "batches"
    /\ full_batches > 0 \/ (~partial_done /\ RunPartial(remainder))
    /\ LET size == IF full_batches > 0 THEN batch_size ELSE remainder
       IN  /\ target' = size
           /\ batches' = Append(batches, size)
           /\ pc' = IF size > 0 THEN "comp" ELSE "batches"
    /\ full_batches' = IF full_batches > 0 THEN full_batches - 1 ELSE full_batches
    /\ partial_done' = IF full_batches > 0 THEN partial_done ELSE TRUE
    /\ batch' = <<>>
    /\ UNCHANGED <<TEAMS, RATINGS, RATING_NOISE_SD, n_runs, batch_size, err,
                   all_results, remainder, current, winners, i, df, built,
                   written, returned, calls, completed, rounds, favoured>>

\* simulate_bracket, lines 91-94
BeginSim ==
    /\ pc = "comp"
    /\ calls' = calls + 1
    /\ IF ~IsPowerOfTwo(Len(TEAMS))
       THEN /\ Raise("AssertionError")
            /\ UNCHANGED <<current, winners, i, rounds, favoured>>
       ELSE /\ current' = _seed_order(TEAMS)
            /\ winners' = <<>>
            /\ i' = 1
            /\ rounds' = 0
            /\ favoured' = TRUE
            /\ pc' = "sim"
            /\ err' = err
    /\ UNCHANGED <<TEAMS, RATINGS, RATING_NOISE_SD, n_runs, batch_size,
                   all_results, full_batches, remainder, partial_done, batch,
                   target, df, built, written, returned, completed, batches>>

\* the draw u fell on the higher-rated side's half of [0,1)
Favourable(name_a, name_b, u) ==
    \/ RATINGS[name_a] > RATINGS[name_b] /\ 2 * u < 4
    \/ RATINGS[name_a] < RATINGS[name_b] /\ 2 * u >= 4

\* _play_round, lines 78-82: one matchup
PlayGame ==
    /\ pc \in {"sim", "round"}
    /\ pc = "sim" => Len(current) > 1
    /\ i <= Len(current)
    /\ IF i + 1 > Len(current)
       THEN /\ Raise("IndexError")
            /\ UNCHANGED <<winners, i, favoured>>
       ELSE IF ~({current[i][2], current[i + 1][2]} \subseteq DOMAIN RATINGS)
       THEN /\ Raise("KeyError")
            /\ UNCHANGED <<winners, i, favoured>>
       ELSE \E noise_a \in GaussDraws(RATING_NOISE_SD),
               noise_b \in GaussDraws(RATING_NOISE_SD),
               u \in UniformDraws :
               LET name_a == current[i][2]
                   name_b == current[i + 1][2]
                   p == _win_prob(name_a, name_b, noise_a, noise_b)
               IN  /\ winners' = Append(winners,
                                        GameWinner(current[i], current[i + 1], p, u))
                   /\ i' = NextIndex(i)
                   /\ favoured' = (favoured /\ Favourable(name_a, name_b, u))
                   /\ pc' = pc
                   /\ err' = err
    /\ UNCHANGED <<TEAMS, RATINGS, RATING_NOISE_SD, n_runs, batch_size,
                   all_results, full_batches, remainder, partial_done, batch,
                   target, current, df, built, written, returned, calls,
                   completed, rounds, batches>>

\* lines 83 and 96: the round returns its winners, which become current
EndRound ==
    /\ pc = "sim"
    /\ Len(current) > 1
    /\ i > Len(current)
    /\ rounds < MaxRounds
    /\ current' = RoundResult(current, winners)
    /\ winners' = <<>>
    /\ i' = 1
    /\ rounds' = rounds + 1
    /\ UNCHANGED <<TEAMS, RATINGS, RATING_NOISE_SD, n_runs, batch_size, pc, err,
                   all_results, full_batches, remainder, partial_done, batch,
                   target, df, built, written, returned, calls, completed,
                   batches, favoured>>

\* line 98: the champion is returned and collected; the list comprehension
\* that is now complete is added to the tally (lines 114, 118)
EndSim ==
    /\ pc = "sim"
    /\ Len(current) <= 1
    /\ IF current = <<>>
       THEN /\ Raise("IndexError")
            /\ UNCHANGED <<batch, completed, all_results>>
       ELSE LET collected == Append(batch, Champion(current))
            IN  /\ batch' = collected
                /\ completed' = completed + 1
                /\ IF Len(collected) >= target
                   THEN /\ all_results' = CounterUpdate(all_results, collected)
                        /\ pc' = "batches"
                   ELSE /\ all_results' = all_results
                        /\ pc' = "comp"
                /\ err' = err
    /\ UNCHANGED <<TEAMS, RATINGS, RATING_NOISE_SD, n_runs, batch_size,
                   full_batches, remainder, partial_done, target, current,
                   winners, i, df, built, written, returned, calls, rounds,
                   batches, favoured>>

\* lines 120-126: the table is built, written and returned; the write may fail
Report ==
    /\ pc = "batches"
    /\ ~(full_batches > 0 \/ (~partial_done /\ RunPartial(remainder)))
    /\ IF n_runs = 0 /\ all_results # <<>>
       THEN /\ Raise("ZeroDivisionError")
            /\ UNCHANGED <<df, built, written, returned>>
       ELSE /\ df' = ReportRows(all_results, n_runs)
            /\ built' = TRUE
            /\ \E ok \in BOOLEAN :
                  /\ written' = ok
                  /\ returned' = ok
                  /\ pc' = IF ok THEN "done" ELSE "error"
                  /\ err' = IF ok THEN err ELSE "OSError"
    /\ UNCHANGED <<TEAMS, RATINGS, RATING_NOISE_SD, n_runs, batch_size,
                   all_results, full_batches, remainder, partial_done, batch,
                   target, current, winners, i, calls, completed, rounds,
                   batches, favoured>>

\* _seed_order called on its own
SeedOrder ==
    /\ pc = "seed"
    /\ current' = _seed_order(TEAMS)
    /\ pc' = "seeded"
    /\ UNCHANGED <<TEAMS, RATINGS, RATING_NOISE_SD, n_runs, batch_size, err,
                   all_results, full_batches, remainder, partial_done, batch,
                   target, winners, i, df, built, written, returned, calls,
                   completed, rounds, batches, favoured>>

Next == Start \/ BeginBatch \/ BeginSim \/ PlayGame \/ EndRound \/ EndSim \/ Report

\* one aggregation run
Spec == Init /\ [][Next]_vars

\* the program is sequential: a step that can be taken is taken
FairSpec == Init /\ [][Next]_vars /\ WF_vars(Next)

\* _seed_order alone
SpecSeed == InitSeed /\ [][SeedOrder]_vars

\* _play_round alone
SpecRound == InitRound /\ [][PlayGame]_vars

(***************************************************************************)
(* Vocabulary of the properties.                                           *)
(***************************************************************************)
PowersOfTwo == {1, 2, 4, 8, 16, 32}

AllRated == Names(TEAMS) \subseteq DOMAIN RATINGS

DistinctRatings ==
    \A a, b \in Names(TEAMS) : a # b => RATINGS[a] # RATINGS[b]

\* the team whose rating is strictly highest
TopRated ==
    CHOOSE a \in Names(TEAMS) : \A b \in Names(TEAMS) \ {a} : RATINGS[a] > RATINGS[b]

\* results collected by the running list comprehension, not yet in the tally
Pending == IF pc \in {"comp", "sim"} THEN Len(batch) ELSE 0

\* the batches n_runs and batch_size call for: the full ones, then the rest
PlannedBatches ==
    LET q == n_runs \div batch_size
        r == n_runs % batch_size
    IN  [k \in 1 .. (q + (IF r # 0 THEN 1 ELSE 0)) |-> IF k <= q THEN batch_size ELSE r]

(***************************************************************************)
(* The properties.                                                         *)
(***************************************************************************)
\* C1: when run_large_simulation finishes, the championship counts of the
\* tally sum to n_runs, for every batch_size >= 1 and n_runs >= 0.
C1_TallySumsToRuns ==
    pc = "done" => CounterTotal(all_results) = n_runs

C1_Witness ==
    /\ pc = "done"
    /\ n_runs = 3
    /\ batch_size = 2
    /\ CounterTotal(all_results) = 3

\* C2 as stated: on the 16-team field with no noise and distinct ratings,
\* every champion of every simulated tournament is the highest-rated team.
C2_TopRatedAlwaysChampion ==
    (TEAMS = SrcTEAMS /\ AllRated /\ RATING_NOISE_SD = 0 /\ DistinctRatings)
        => \A k \in 1 .. Len(batch) : batch[k] = TopRated

\* C2 amended: with no noise and distinct ratings, the highest-rated team is
\* the champion of every bracket all of whose draws fell on the half of
\* [0,1) of the higher-rated entry of the matchup.
C2_TopRatedWinsFavouredDraws ==
    (/\ AllRated
     /\ RATING_NOISE_SD = 0
     /\ DistinctRatings
     /\ pc = "sim"
     /\ Len(current) = 1
     /\ favoured)
        => Champion(current) = TopRated

C2_Witness ==
    /\ TEAMS = SrcTEAMS
    /\ RATINGS = SrcRATINGS
    /\ RATING_NOISE_SD = 0
    /\ pc = "sim"
    /\ Len(current) = 1
    /\ rounds = 4
    /\ favoured
    /\ current[1][2] = "Cornell"

\* C3: a bracket that is being played always comes to an end, with exactly
\* one entry left when every team is rated, and every champion returned is
\* the name of a team of TEAMS.
C3_BracketTerminates ==
    /\ (pc = "sim") ~> (pc # "sim")
    /\ (pc = "sim" /\ AllRated) ~> (pc = "sim" /\ Len(current) = 1)
    /\ [](\A k \in 1 .. Len(batch) : batch[k] \in Names(TEAMS))

C3_Witness ==
    /\ Len(TEAMS) = 16
    /\ completed = 1
    /\ batch # <<>>
    /\ batch[1] \in Names(TEAMS)
    /\ rounds = 4

\* C4: for seeds 1..N, N even, in any input order, _seed_order returns a
\* permutation of its input with seed k+1 at position 2k and seed N-k at
\* position 2k+1 (counted from 0), for k = 0..N/2-1.
C4_SeedOrderPairs ==
    pc = "seeded" =>
        /\ Len(current) = Len(TEAMS)
        /\ Range(current) = Range(TEAMS)
        /\ \A k \in 0 .. (Len(TEAMS) \div 2) - 1 :
              /\ current[2 * k + 1][1] = k + 1
              /\ current[2 * k + 2][1] = Len(TEAMS) - k

C4_Witness ==
    /\ pc = "seeded"
    /\ Len(TEAMS) = 6
    /\ TEAMS[1][1] = 6
    /\ TEAMS[2][1] = 2
    /\ current[1][1] = 1
    /\ current[2][1] = 6

\* C5: _play_round on a list of even length returns half as many winners,
\* the k-th of them one of the entries at positions 2k and 2k+1 (from 0).
C5_RoundHalves ==
    /\ pc # "error"
    /\ \A k \in 1 .. Len(winners) : winners[k] \in {current[2 * k - 1], current[2 * k]}
    /\ i > Len(current) => 2 * Len(winners) = Len(current)

C5_Witness ==
    /\ pc = "round"
    /\ Len(current) = 8
    /\ i > Len(current)
    /\ Len(winners) = 4
    /\ winners[1] = current[2]
    /\ winners[4] = current[7]

\* C6 as stated: a team list whose seeds are not exactly 1..N makes the
\* simulation fail before any champion is produced or any result returned.
C6_BadSeedsRejected ==
    Seeds(TEAMS) # 1 .. Len(TEAMS) => (completed = 0 /\ ~returned)

\* C7: batch_size <= 0, a team count that is no power of two and a team
\* missing from RATINGS each end the run in an error, with no table built,
\* written or returned; a run that built a table had none of them.
C7_ErrorsAbort ==
    /\ (pc = "error" /\ err \in {"AssertionError", "KeyError"})
          => (~built /\ ~written /\ ~returned /\ df = <<>>)
    /\ (pc # "start" /\ batch_size <= 0) => pc = "error"
    /\ (calls > 0 /\ Len(TEAMS) \notin PowersOfTwo) => (pc = "error" /\ completed = 0)
    /\ (completed > 0 \/ (n_runs > 0 /\ built)) => AllRated
    /\ built => (batch_size > 0 /\ (n_runs > 0 => Len(TEAMS) \in PowersOfTwo))
    /\ returned => (built /\ written /\ pc = "done")

C7_Witness ==
    /\ pc = "error"
    /\ err = "KeyError"
    /\ TEAMS = SrcTEAMS
    /\ n_runs = 1
    /\ calls = 1
    /\ ~built

\* C8 as stated: in every state the tally's total equals the number of
\* tournament simulations completed so far.
C8_TallyCountsEveryRun ==
    CounterTotal(all_results) = completed

\* C8 amended: the tally starts empty and is updated once per completed
\* batch; its total plus the results collected by the running batch equals
\* the number of completed simulations, the total alone between batches and
\* at the end; the table is built only after all n_runs simulations.
C8_TallyCountsPerBatch ==
    /\ pc = "start" => all_results = <<>>
    /\ CounterTotal(all_results) + Pending = completed
    /\ pc \in {"batches", "done"} => CounterTotal(all_results) = completed
    /\ \A k \in 1 .. Len(all_results) : all_results[k][2] >= 1
    /\ built => (completed = n_runs /\ pc \in {"done", "error"})

C8_Witness ==
    /\ pc = "sim"
    /\ n_runs = 3
    /\ batch_size = 2
    /\ Len(batch) = 1
    /\ completed = 1
    /\ all_results = <<>>

C9_Step ==
    /\ pc = "sim" =>
          /\ Len(current) \in PowersOfTwo
          /\ Len(current) * (2 ^ rounds) = Len(TEAMS)
    /\ (pc = "comp" /\ pc' = "sim") =>
          (Len(current') = Len(TEAMS) /\ rounds' = 0)
    /\ (pc = "sim" /\ pc' = "sim" /\ (current' # current \/ rounds' # rounds)) =>
          /\ 2 * Len(current') = Len(current)
          /\ rounds' = rounds + 1
          /\ \A k \in 1 .. Len(current') :
                current'[k] \in {current[2 * k - 1], current[2 * k]}
    /\ (pc = "sim" /\ pc' \in {"comp", "batches"}) =>
          (Len(current) = 1 /\ 2 ^ rounds = Len(TEAMS))

\* C9: during a bracket the number of entries left is a power of two, starts
\* at N, is halved by each round, in which the k-th survivor comes from the
\* k-th pair, and is 1 after exactly log2(N) rounds, when the bracket ends.
C9_RoundsHalve == [][C9_Step]_vars

C9_Witness ==
    /\ pc = "sim"
    /\ Len(TEAMS) = 16
    /\ Len(current) = 1
    /\ rounds = 4

\* C10: a finished run has started floor(n_runs / batch_size) batches of
\* batch_size simulations, then one of n_runs mod batch_size simulations
\* when that is not zero; no batch is empty and simulate_bracket has been
\* called n_runs times.
C10_BatchPlan ==
    /\ \A k \in 1 .. Len(batches) : batches[k] >= 1
    /\ pc = "done" => (batches = PlannedBatches /\ calls = n_runs /\ completed = n_runs)

C10_Witness ==
    /\ pc = "done"
    /\ n_runs = 3
    /\ batch_size = 2
    /\ batches = <<2, 1>>
    /\ calls = 3

====
